---- MODULE Spec2Model ----
(***************************************************************************)
(* Split payments core (crates/router/src/core/split_payments.rs):         *)
(*   get_payment_method_and_amount_split  - the allocation of an order     *)
(*     amount over gift cards and at most one other payment method;        *)
(*   payments_execute_split_core          - the run that updates the       *)
(*     payment intent, allocates, and confirms the legs one after another. *)
(* The intent store, the balance lookup and the confirm pipeline are       *)
(* collaborators whose code lives in other modules: each call of one of    *)
(* them is a step whose outcome is chosen nondeterministically.            *)
(***************************************************************************)
EXTENDS Integers, Sequences, FiniteSets

\* ------------------------------------------------------------- bounds
MaxSplit == 2       \* longest request.split_payment_method_data
MaxAmount == 2      \* largest order_amount
MaxBalance == 2     \* largest balance of one gift card

\* ------------------------------------------------------------- values
Runs == {"r1", "r2"}

GiftCardKeys == {"k1", "k2"}
\* PaymentMethodData: the GiftCard variant (whose unique key is k1, k2, or
\* cannot be derived: "nokey") and one other variant.
GiftCardPayloads == [variant : {"GiftCard"}, key : GiftCardKeys \cup {"nokey"}]
CardPayload == [variant |-> "Card", key |-> "card"]
NoPayload == [variant |-> "None", key |-> "none"]
Payloads == GiftCardPayloads \cup {CardPayload}

\* enums::PaymentMethod, as far as the code tells its values apart
PaymentMethodTypes == {"GiftCard", "Card"}

\* SplitPaymentMethodDataRequest (payment_method_subtype is carried along
\* and never read by the allocation: it is left out)
Descriptors == [payment_method_data : Payloads, payment_method_type : PaymentMethodTypes]

SeqsUpTo(S, n) == UNION {[1..k -> S] : k \in 0..n}

\* PaymentsConfirmIntentRequest: split_payment_method_data is an Option
\* (has_split), payment_method_data.payment_method_data is an Option
\* (NoPayload is None)
Requests ==
  [has_split : BOOLEAN,
   split_payment_method_data : SeqsUpTo(Descriptors, MaxSplit),
   payment_method_data : Payloads \cup {NoPayload},
   payment_method_type : PaymentMethodTypes]

\* A request whose Option is None holds no list.
WellFormedRequest(req) ==
  ~req.has_split => req.split_payment_method_data = <<>>

NoPrep ==
  [ok |-> FALSE, err |-> "", has_primary |-> FALSE,
   non_gift_card_pm_data |-> [variant |-> "None", key |-> "none"],
   gift_card_data_vec |-> <<>>,
   combined |-> <<>>]
Err(e) == [NoPrep EXCEPT !.err = e]

\* ------------------------------------------------- allocation, lines 36-98
IsNonGiftCard(pm_data) == pm_data.payment_method_type # "GiftCard"

\* lines 49-56
combined_pm_data(req) ==
  Append(req.split_payment_method_data,
         [payment_method_data |-> req.payment_method_data,
          payment_method_type |-> req.payment_method_type])

\* lines 36, 55-56: what the merge leaves in the request. The list is cloned
\* out of the request and the top-level descriptor is pushed to the clone.
RequestAfterMerge_inplace(req) ==
  [req EXCEPT !.split_payment_method_data = combined_pm_data(req)]
RequestAfterMerge(req) == req

\* lines 59-62
non_gift_card_count(combined) ==
  Cardinality({i \in DOMAIN combined : IsNonGiftCard(combined[i])})

\* line 64: more than one non-gift-card payment method is refused
TooManyNonGiftCard_off(count) == count > 2
TooManyNonGiftCard(count) == count > 1

\* lines 71-73: Iterator::position, 0 for None
non_gift_card_pm(combined) ==
  IF \E i \in DOMAIN combined : IsNonGiftCard(combined[i])
  THEN CHOOSE i \in DOMAIN combined :
         /\ IsNonGiftCard(combined[i])
         /\ \A j \in 1..(i - 1) : ~IsNonGiftCard(combined[j])
  ELSE 0

\* Vec::remove
Remove(s, i) == [j \in 1..(Len(s) - 1) |-> IF j < i THEN s[j] ELSE s[j + 1]]

\* Vec::insert(0, x)
InsertFront(x, s) == <<x>> \o s

\* lines 36-98: the request's descriptors split into the non-gift-card one
\* (an Option: has_primary) and the gift card payloads, or the error
Prepare(req) ==
  IF ~req.has_split THEN Err("MissingRequiredField")
  ELSE IF req.payment_method_data = NoPayload THEN Err("MissingRequiredField")
  ELSE
    LET combined == combined_pm_data(req)
        index == non_gift_card_pm(combined)
        rest == IF index # 0 THEN Remove(combined, index) ELSE combined
    IN IF TooManyNonGiftCard(non_gift_card_count(combined))
       THEN [Err("InvalidRequestData") EXCEPT !.combined = combined]
       ELSE IF \E i \in DOMAIN rest : rest[i].payment_method_data.variant # "GiftCard"
       THEN [Err("InvalidRequestData") EXCEPT !.combined = combined]
       ELSE [ok |-> TRUE, err |-> "",
             combined |-> combined,
             has_primary |-> index # 0,
             non_gift_card_pm_data |->
               IF index # 0 THEN combined[index].payment_method_data ELSE NoPayload,
             gift_card_data_vec |->
               [i \in DOMAIN rest |-> rest[i].payment_method_data]]

\* ----------------------------------------------- allocation, lines 100-152
\* lines 117-126: the balance key of a gift card; get_payment_method_key
\* fails for a card without a unique key
HasKey(elem) == elem.key \in GiftCardKeys

\* The keys of the batch handed to the balance lookup (lines 94-103)
RequestedKeys(gift_cards) ==
  {gift_cards[i].key : i \in DOMAIN gift_cards} \cap GiftCardKeys

\* What the lookup can return: a balance for some of the requested keys
BalanceMaps(gift_cards) ==
  UNION {[K -> 0..MaxBalance] : K \in SUBSET RequestedKeys(gift_cards)}

RECURSIVE SumOver(_, _)
SumOver(f, K) ==
  IF K = {} THEN 0
  ELSE LET k == CHOOSE x \in K : TRUE IN f[k] + SumOver(f, K \ {k})

\* lines 107-109
total_balances(balances) == SumOver(balances, DOMAIN balances)

Max(a, b) == IF a >= b THEN a ELSE b

\* lines 111-112
remaining_amount_swapped(order_amount, total) == Max(total - order_amount, 0)
remaining_amount(order_amount, total) == Max(order_amount - total, 0)

\* lines 132-135: the leg of one gift card
GiftCardLeg(elem, balances) == [pm |-> elem, amount |-> balances[elem.key]]

\* lines 114-116, 137: one leg per gift card, in the order of the list
Reverse(s) == [i \in DOMAIN s |-> s[Len(s) + 1 - i]]
GiftCardLegs_reversed(gift_cards, balances) ==
  Reverse([i \in DOMAIN gift_cards |-> GiftCardLeg(gift_cards[i], balances)])
GiftCardLegs(gift_cards, balances) ==
  [i \in DOMAIN gift_cards |-> GiftCardLeg(gift_cards[i], balances)]

\* lines 114-137: the first gift card (in order) whose leg cannot be built
\* decides the error of the collect
FirstBad(gift_cards, balances) ==
  LET bad == {i \in DOMAIN gift_cards :
                ~HasKey(gift_cards[i]) \/ gift_cards[i].key \notin DOMAIN balances}
  IN IF bad = {} THEN 0
     ELSE CHOOSE i \in bad : \A j \in bad : i <= j

\* line 146: where the non-gift-card leg goes
PlacePrimary_last(leg, legs) == Append(legs, leg)
PlacePrimary(leg, legs) == InsertFront(leg, legs)

\* line 139: the non-gift-card payment method is needed
NeedsPrimary_negative(remaining) == remaining < 0
NeedsPrimary(remaining) == remaining > 0

AllocErr(e) == [ok |-> FALSE, err |-> e, legs |-> <<>>]
AllocOk(legs) == [ok |-> TRUE, err |-> "", legs |-> legs]

\* lines 107-151 without the clamp of line 112 and with the other payment
\* method charged the difference whenever it is declared
SplitAmounts_unclamped(prep, balances, order_amount) ==
  LET gift_cards == prep.gift_card_data_vec
      remaining == order_amount - total_balances(balances)
      bad == FirstBad(gift_cards, balances)
      pm_split_amt_tuple == GiftCardLegs(gift_cards, balances)
  IN IF bad # 0
     THEN IF ~HasKey(gift_cards[bad])
          THEN AllocErr("InvalidRequestData")
          ELSE AllocErr("InternalServerError")
     ELSE IF prep.has_primary
     THEN AllocOk(PlacePrimary([pm |-> prep.non_gift_card_pm_data,
                                amount |-> remaining],
                               pm_split_amt_tuple))
     ELSE IF remaining > 0
     THEN AllocErr("InvalidRequestData")
     ELSE AllocOk(pm_split_amt_tuple)

\* lines 107-151 with the check of lines 139-145 made before the legs of
\* lines 114-137 are built
SplitAmounts_primaryfirst(prep, balances, order_amount) ==
  LET gift_cards == prep.gift_card_data_vec
      remaining == remaining_amount(order_amount, total_balances(balances))
      bad == FirstBad(gift_cards, balances)
  IN IF NeedsPrimary(remaining) /\ ~prep.has_primary
     THEN AllocErr("InvalidRequestData")
     ELSE IF bad # 0
     THEN IF ~HasKey(gift_cards[bad])
          THEN AllocErr("InvalidRequestData")
          ELSE AllocErr("InternalServerError")
     ELSE IF NeedsPrimary(remaining)
     THEN AllocOk(PlacePrimary([pm |-> prep.non_gift_card_pm_data,
                                amount |-> remaining],
                               GiftCardLegs(gift_cards, balances)))
     ELSE AllocOk(GiftCardLegs(gift_cards, balances))

\* lines 107-151
SplitAmounts(prep, balances, order_amount) ==
  LET gift_cards == prep.gift_card_data_vec
      remaining == remaining_amount(order_amount, total_balances(balances))
      bad == FirstBad(gift_cards, balances)
      pm_split_amt_tuple == GiftCardLegs(gift_cards, balances)
  IN IF bad # 0
     THEN IF ~HasKey(gift_cards[bad])
          THEN AllocErr("InvalidRequestData")
          ELSE AllocErr("InternalServerError")
     ELSE IF NeedsPrimary(remaining)
     THEN IF ~prep.has_primary
          THEN AllocErr("InvalidRequestData")
          ELSE AllocOk(PlacePrimary([pm |-> prep.non_gift_card_pm_data,
                                     amount |-> remaining],
                                    pm_split_amt_tuple))
     ELSE AllocOk(pm_split_amt_tuple)


\* ------------------------------------------------------- the intent store
\* PaymentIntent, as far as the run reads or writes it. version counts the
\* writes of the record.
PreCallIntent(amount) ==
  [status |-> "RequiresPaymentMethod",
   active_attempt_id_type |-> "AttemptID",
   active_attempts_group_id |-> "none",
   order_amount |-> amount,
   version |-> 0]

\* line 185: GlobalAttemptGroupId::generate, a fresh identifier per run (the
\* run's own name stands for it)
GenerateGroupId(r) == r

\* lines 178-186: PaymentIntentUpdate::SplitUpdate
SplitUpdate_noid(r) ==
  [variant |-> "SplitUpdate", status |-> "",
   active_attempt_id_type |-> "AttemptID",
   active_attempts_group_id |-> "none"]
SplitUpdate(r) ==
  [variant |-> "SplitUpdate", status |-> "",
   active_attempt_id_type |-> "AttemptID",
   active_attempts_group_id |-> GenerateGroupId(r)]

\* lines 242-249, 266-273: PaymentIntentUpdate::VoidUpdate
VoidUpdate(status) ==
  [variant |-> "VoidUpdate", status |-> status,
   active_attempt_id_type |-> "", active_attempts_group_id |-> ""]

\* line 244: the status written after a leg
ResetStatusValue_processing == "Processing"
ResetStatusValue == "RequiresPaymentMethod"
\* line 268: the status written after the loop
ExitStatusValue_reset == "RequiresPaymentMethod"
ExitStatusValue == "Succeeded"

\* db.update_payment_intent: the fields the update carries are written
ApplyUpdate(intent, update) ==
  IF update.variant = "SplitUpdate"
  THEN [intent EXCEPT !.active_attempt_id_type = update.active_attempt_id_type,
                      !.active_attempts_group_id = update.active_attempts_group_id,
                      !.version = @ + 1]
  ELSE [intent EXCEPT !.status = update.status, !.version = @ + 1]

\* The statuses payments_operation_core may leave on the intent
PipelineStatuses == {"Processing", "Succeeded"}

\* ------------------------------------------------------------ the run
VARIABLES
  db_intent,              \* the persisted payment intent
  request,                \* request[r]: the confirm request of run r
  pc,                     \* pc[r]: where run r is
  payment_intent,         \* the local of lines 166 and 188
  prep,                   \* the locals of lines 36-98
  balances,               \* line 100
  pm_amount_split,        \* line 200
  leg,                    \* the position of the loop of line 204
  payment_data,           \* payment_data.payment_intent, line 223
  payment_response_data,  \* line 203
  result,                 \* what the run returned
  trace,                  \* trace[r]: the calls run r made, in order
  updates                 \* the update_payment_intent calls, in order

vars ==
  <<db_intent, request, pc, payment_intent, prep, balances, pm_amount_split,
    leg, payment_data, payment_response_data, result, trace, updates>>

NoLeg == [pm |-> NoPayload, amount |-> 0]
NoIntent == [PreCallIntent(0) EXCEPT !.status = "", !.version = -1]
Pending == [kind |-> "Pending", err |-> "", response |-> NoLeg]
Failed(e) == [kind |-> "Err", err |-> e, response |-> NoLeg]
Returned(l) == [kind |-> "Ok", err |-> "", response |-> l]
Panicked == [kind |-> "Panic", err |-> "", response |-> NoLeg]
NoneData == [some |-> FALSE, leg |-> NoLeg]

\* One call of update_payment_intent by run r: the version of the record it
\* was handed (`this`), the version the store held, and the outcome
Update(r, ev, this, ok) ==
  [run |-> r, ev |-> ev, this |-> this.version, stored |-> db_intent.version,
   ok |-> ok]
LogUpdate(r, ev, this, ok) == updates' = Append(updates, Update(r, ev, this, ok))

\* line 191: the record the SplitUpdate is applied to
EnterBase(r) == payment_intent[r]
\* line 254: the record the status reset is applied to
ResetBase(r) == payment_data[r]
\* line 278: the record the update to Succeeded is applied to
ExitBase_latest(r) == db_intent
ExitBase(r) == payment_intent[r]

Event(ev, i, ok) == [ev |-> ev, leg |-> i, ok |-> ok]
Log(r, ev, i, ok) == trace' = [trace EXCEPT ![r] = Append(@, Event(ev, i, ok))]

EmptyRequest ==
  [has_split |-> FALSE, split_payment_method_data |-> <<>>,
   payment_method_data |-> NoPayload, payment_method_type |-> "Card"]

InitRun(active) ==
  /\ pc = [r \in Runs |-> IF r \in active THEN "find" ELSE "off"]
  /\ payment_intent = [r \in Runs |-> NoIntent]
  /\ prep = [r \in Runs |-> NoPrep]
  /\ balances = [r \in Runs |-> <<>>]
  /\ pm_amount_split = [r \in Runs |-> <<>>]
  /\ leg = [r \in Runs |-> 1]
  /\ payment_data = [r \in Runs |-> NoIntent]
  /\ payment_response_data = [r \in Runs |-> NoneData]
  /\ result = [r \in Runs |-> Pending]
  /\ trace = [r \in Runs |-> <<>>]
  /\ updates = <<>>

\* One run, any request, any order amount
Init ==
  /\ \E amount \in 0..MaxAmount : db_intent = PreCallIntent(amount)
  /\ \E req \in Requests :
       /\ WellFormedRequest(req)
       /\ request = [r \in Runs |-> IF r = "r1" THEN req ELSE EmptyRequest]
  /\ InitRun({"r1"})

Abort(r, e) ==
  /\ result' = [result EXCEPT ![r] = Failed(e)]
  /\ pc' = [pc EXCEPT ![r] = "done"]

\* lines 166-174: find_payment_intent_by_id
FindIntent(r) ==
  /\ pc[r] = "find"
  /\ \/ /\ payment_intent' = [payment_intent EXCEPT ![r] = db_intent]
        /\ pc' = [pc EXCEPT ![r] = "enter"]
        /\ Log(r, "find", 0, TRUE)
        /\ UNCHANGED result
     \/ /\ Abort(r, "PaymentNotFound")
        /\ Log(r, "find", 0, FALSE)
        /\ UNCHANGED payment_intent
  /\ UNCHANGED <<db_intent, request, prep, balances, pm_amount_split, leg,
                 payment_data, payment_response_data,
                 updates>>

\* line 198: the `?` on the result of the SplitUpdate
AfterEnter_retry(ok) == IF ok THEN "allocate" ELSE "enter"
AfterEnter(ok) == IF ok THEN "allocate" ELSE "done"

\* lines 178-198: the SplitUpdate
EnterSplit(r) ==
  /\ pc[r] = "enter"
  /\ \/ /\ db_intent' = ApplyUpdate(db_intent, SplitUpdate(r))
        /\ payment_intent' = [payment_intent EXCEPT ![r] = db_intent']
        /\ pc' = [pc EXCEPT ![r] = AfterEnter(TRUE)]
        /\ Log(r, "enter", 0, TRUE)
        /\ LogUpdate(r, "enter", EnterBase(r), TRUE)
        /\ UNCHANGED result
     \/ /\ pc' = [pc EXCEPT ![r] = AfterEnter(FALSE)]
        /\ result' = [result EXCEPT ![r] = Failed("InternalServerError")]
        /\ Log(r, "enter", 0, FALSE)
        /\ LogUpdate(r, "enter", EnterBase(r), FALSE)
        /\ UNCHANGED <<db_intent, payment_intent>>
  /\ UNCHANGED <<request, prep, balances, pm_amount_split, leg, payment_data,
                 payment_response_data>>

\* line 201: the `?` on the allocation's result
AfterAllocation_ignore(ok) == "loop"
AfterAllocation(ok) == IF ok THEN "loop" ELSE "done"

\* lines 36-98 of the allocation called at line 200
AllocPrepare(r) ==
  /\ pc[r] = "allocate"
  /\ LET p == Prepare(request[r]) IN
       /\ prep' = [prep EXCEPT ![r] = p]
       /\ IF p.ok
          THEN /\ pc' = [pc EXCEPT ![r] = "fetch"]
               /\ UNCHANGED result
          ELSE /\ pc' = [pc EXCEPT ![r] = AfterAllocation(FALSE)]
               /\ result' = [result EXCEPT ![r] = Failed(p.err)]
  /\ request' =
       [request EXCEPT
          ![r] = IF @.has_split /\ @.payment_method_data # NoPayload
                 THEN RequestAfterMerge(@) ELSE @]
  /\ Log(r, "prepare", 0, prep'[r].ok)
  /\ UNCHANGED <<db_intent, payment_intent, balances, pm_amount_split,
                 leg, payment_data, payment_response_data, updates>>

\* lines 100-105: fetch_payment_methods_balances_from_redis
FetchBalances(r) ==
  /\ pc[r] = "fetch"
  /\ \/ /\ \E b \in BalanceMaps(prep[r].gift_card_data_vec) :
             balances' = [balances EXCEPT ![r] = b]
        /\ pc' = [pc EXCEPT ![r] = "split"]
        /\ Log(r, "fetch", 0, TRUE)
        /\ UNCHANGED result
     \/ /\ pc' = [pc EXCEPT ![r] = AfterAllocation(FALSE)]
        /\ result' = [result EXCEPT ![r] = Failed("BalanceFetchFailed")]
        /\ Log(r, "fetch", 0, FALSE)
        /\ UNCHANGED balances
  /\ UNCHANGED <<db_intent, request, payment_intent, prep, pm_amount_split, leg,
                 payment_data, payment_response_data,
                 updates>>

\* lines 107-151, and line 203
AllocSplit(r) ==
  /\ pc[r] = "split"
  /\ LET a == SplitAmounts(prep[r], balances[r], payment_intent[r].order_amount) IN
       /\ pm_amount_split' = [pm_amount_split EXCEPT ![r] = a.legs]
       /\ pc' = [pc EXCEPT ![r] = AfterAllocation(a.ok)]
       /\ result' = [result EXCEPT ![r] = IF a.ok THEN @ ELSE Failed(a.err)]
       /\ Log(r, "split", 0, a.ok)
  /\ UNCHANGED <<db_intent, request, payment_intent, prep, balances, leg,
                 payment_data, payment_response_data,
                 updates>>


\* line 204: the loop has consumed every leg
LoopDone_early(i, legs) == i >= Len(legs)
LoopDone(i, legs) == i > Len(legs)

\* line 204: the leg after leg i
NextLeg_same(i) == i
NextLeg(i) == i + 1

\* lines 205-220: to_get_tracker and get_trackers_for_split_payments
GetTrackers(r) ==
  /\ pc[r] = "loop"
  /\ ~LoopDone(leg[r], pm_amount_split[r])
  /\ \/ /\ pc' = [pc EXCEPT ![r] = "trackers_ready"]
        /\ Log(r, "trackers", leg[r], TRUE)
        /\ UNCHANGED result
     \/ /\ Abort(r, "GetTrackersFailed")
        /\ Log(r, "trackers", leg[r], FALSE)
  /\ UNCHANGED <<db_intent, request, payment_intent, prep, balances,
                 pm_amount_split, leg, payment_data, payment_response_data,
                 updates>>

\* lines 229-239: payments_operation_core is called for the leg
StartAuthorize(r) ==
  /\ pc[r] = "trackers_ready"
  /\ pc' = [pc EXCEPT ![r] = "authorizing"]
  /\ Log(r, "authorize_start", leg[r], TRUE)
  /\ UNCHANGED <<db_intent, request, payment_intent, prep, balances,
                 pm_amount_split, leg, payment_data, payment_response_data, result,
                 updates>>

\* line 240: the `?` on the result of payments_operation_core
AfterAuthorize_swallow(ok) == "reset"
AfterAuthorize(ok) == IF ok THEN "reset" ELSE "done"

\* lines 222-240: payments_operation_core returns; what it did to the intent
\* is its own business (a status of PipelineStatuses)
ReturnAuthorize(r) ==
  /\ pc[r] = "authorizing"
  /\ \/ /\ \E st \in PipelineStatuses :
             db_intent' = [db_intent EXCEPT !.status = st, !.version = @ + 1]
        /\ payment_data' = [payment_data EXCEPT ![r] = db_intent']
        /\ pc' = [pc EXCEPT ![r] = AfterAuthorize(TRUE)]
        /\ Log(r, "authorize_return", leg[r], TRUE)
        /\ UNCHANGED result
     \/ /\ pc' = [pc EXCEPT ![r] = AfterAuthorize(FALSE)]
        /\ result' = [result EXCEPT ![r] = Failed("AuthorizeFailed")]
        /\ Log(r, "authorize_return", leg[r], FALSE)
        /\ UNCHANGED <<db_intent, payment_data>>
  /\ UNCHANGED <<request, payment_intent, prep, balances, pm_amount_split, leg,
                 payment_response_data,
                 updates>>

\* lines 242-263: the VoidUpdate to RequiresPaymentMethod, then the leg's
\* result is kept
ResetStatus(r) ==
  /\ pc[r] = "reset"
  /\ \/ /\ db_intent' = ApplyUpdate(db_intent, VoidUpdate(ResetStatusValue))
        /\ payment_response_data' =
             [payment_response_data EXCEPT
                ![r] = [some |-> TRUE, leg |-> pm_amount_split[r][leg[r]]]]
        /\ leg' = [leg EXCEPT ![r] = NextLeg(@)]
        /\ pc' = [pc EXCEPT ![r] = "loop"]
        /\ Log(r, "reset", leg[r], TRUE)
        /\ LogUpdate(r, "reset", ResetBase(r), TRUE)
        /\ UNCHANGED result
     \/ /\ Abort(r, "InternalServerError")
        /\ Log(r, "reset", leg[r], FALSE)
        /\ LogUpdate(r, "reset", ResetBase(r), FALSE)
        /\ UNCHANGED <<db_intent, payment_response_data, leg>>
  /\ UNCHANGED <<request, payment_intent, prep, balances, pm_amount_split,
                 payment_data>>

\* lines 266-285: the VoidUpdate to Succeeded
ExitUpdate(r) ==
  /\ pc[r] = "loop"
  /\ LoopDone(leg[r], pm_amount_split[r])
  /\ \/ /\ db_intent' = ApplyUpdate(db_intent, VoidUpdate(ExitStatusValue))
        /\ pc' = [pc EXCEPT ![r] = "respond"]
        /\ Log(r, "exit", 0, TRUE)
        /\ LogUpdate(r, "exit", ExitBase(r), TRUE)
        /\ UNCHANGED result
     \/ /\ Abort(r, "InternalServerError")
        /\ Log(r, "exit", 0, FALSE)
        /\ LogUpdate(r, "exit", ExitBase(r), FALSE)
        /\ UNCHANGED db_intent
  /\ UNCHANGED <<request, payment_intent, prep, balances, pm_amount_split, leg,
                 payment_data, payment_response_data>>

\* lines 287-295: unwrap of the kept result (a panic on None), then
\* generate_response
Respond(r) ==
  /\ pc[r] = "respond"
  /\ pc' = [pc EXCEPT ![r] = "done"]
  /\ IF ~payment_response_data[r].some
     THEN /\ result' = [result EXCEPT ![r] = Panicked]
          /\ Log(r, "respond", 0, FALSE)
     ELSE \/ /\ result' = [result EXCEPT ![r] = Returned(payment_response_data[r].leg)]
             /\ Log(r, "respond", 0, TRUE)
          \/ /\ result' = [result EXCEPT ![r] = Failed("GenerateResponseFailed")]
             /\ Log(r, "respond", 0, FALSE)
  /\ UNCHANGED <<db_intent, request, payment_intent, prep, balances,
                 pm_amount_split, leg, payment_data, payment_response_data,
                 updates>>

Next ==
  \E r \in Runs :
    \/ FindIntent(r)
    \/ EnterSplit(r)
    \/ AllocPrepare(r)
    \/ FetchBalances(r)
    \/ AllocSplit(r)
    \/ GetTrackers(r)
    \/ StartAuthorize(r)
    \/ ReturnAuthorize(r)
    \/ ResetStatus(r)
    \/ ExitUpdate(r)
    \/ Respond(r)

Spec == Init /\ [][Next]_vars

\* Two calls for the same intent at once: one pays with a gift card and a
\* card, the other with the card alone
ConcRequest(gift) ==
  [has_split |-> TRUE, split_payment_method_data |-> gift,
   payment_method_data |-> CardPayload, payment_method_type |-> "Card"]

InitConc ==
  /\ db_intent = PreCallIntent(2)
  /\ request =
       [r \in Runs |->
          IF r = "r1"
            THEN ConcRequest(<<[payment_method_data |-> [variant |-> "GiftCard", key |-> "k1"],
                               payment_method_type |-> "GiftCard"]>>)
            ELSE ConcRequest(<<>>)]
  /\ InitRun(Runs)

SpecConc == InitConc /\ [][Next]_vars


\* ------------------------------------------------------------ the claims
\* What the claims say of a run, read off the request and the trace.

\* Run r took step ev with outcome ok
Happened(r, ev, ok) ==
  \E p \in DOMAIN trace[r] : trace[r][p].ev = ev /\ trace[r][p].ok = ok

\* The allocation of run r got its balances and came to its end
SplitDone(r) == Happened(r, "split", TRUE) \/ Happened(r, "split", FALSE)
AllocReturned(r) == Happened(r, "split", TRUE)
AllocFailed(r) ==
  \/ Happened(r, "prepare", FALSE)
  \/ Happened(r, "fetch", FALSE)
  \/ Happened(r, "split", FALSE)

\* Both optional fields are there, so that the descriptors are merged
HasMerged(req) == req.has_split /\ req.payment_method_data # NoPayload

\* The declared descriptors of a method type, in declared order (the
\* top-level one is the last)
OfType(req, gift) ==
  LET Test(d) == (d.payment_method_type = "GiftCard") = gift
  IN SelectSeq(combined_pm_data(req), Test)

DeclaredGiftCards(req) ==
  [i \in DOMAIN OfType(req, TRUE) |-> OfType(req, TRUE)[i].payment_method_data]
DeclaredPrimaries(req) ==
  [i \in DOMAIN OfType(req, FALSE) |-> OfType(req, FALSE)[i].payment_method_data]

\* The sum of the balances the lookup returned to run r
BalanceOr0(b, k) == IF k \in DOMAIN b THEN b[k] ELSE 0
FetchedTotal(r) == BalanceOr0(balances[r], "k1") + BalanceOr0(balances[r], "k2")

\* The leg of each declared gift card, with its whole fetched balance
FullBalanceLegs(r) ==
  LET cards == DeclaredGiftCards(request[r])
  IN [i \in DOMAIN cards |-> [pm |-> cards[i], amount |-> balances[r][cards[i].key]]]

OrderAmount == db_intent.order_amount

\* No gift card and one other payment method are declared
OnlyPrimary(req) ==
  /\ HasMerged(req)
  /\ Len(DeclaredGiftCards(req)) = 0
  /\ Len(DeclaredPrimaries(req)) = 1

\* C1 as claimed: with no gift card and one other payment method declared,
\* the allocation returns the single leg (that payment method, order_amount),
\* whatever the order amount.
C1_AnyAmount ==
  \A r \in Runs :
    (OnlyPrimary(request[r]) /\ AllocReturned(r))
      => pm_amount_split[r] =
           <<[pm |-> request[r].payment_method_data, amount |-> OrderAmount]>>

\* C1, amended: with no gift card and one other payment method declared and
\* order_amount > 0, an allocation that got its balances returns exactly the
\* leg (that payment method, order_amount).
C1_SinglePrimaryLeg ==
  \A r \in Runs :
    (OnlyPrimary(request[r]) /\ OrderAmount > 0 /\ SplitDone(r))
      => /\ AllocReturned(r)
         /\ pm_amount_split[r] =
              <<[pm |-> request[r].payment_method_data, amount |-> OrderAmount]>>

C1_Witness ==
  /\ OnlyPrimary(request["r1"])
  /\ OrderAmount > 0
  /\ AllocReturned("r1")
  /\ Len(pm_amount_split["r1"]) = 1

\* C2: when the fetched balances sum to order_amount or more, the returned
\* legs are the declared gift cards in declared order, each with its whole
\* fetched balance, and nothing else (no leg of the other payment method).
C2_GiftCardsOnly ==
  \A r \in Runs :
    (AllocReturned(r) /\ FetchedTotal(r) >= OrderAmount)
      => pm_amount_split[r] = FullBalanceLegs(r)

C2_Witness ==
  /\ AllocReturned("r1")
  /\ FetchedTotal("r1") > OrderAmount
  /\ Len(DeclaredPrimaries(request["r1"])) = 1
  /\ Len(pm_amount_split["r1"]) = 2
  /\ pm_amount_split["r1"][1].pm # pm_amount_split["r1"][2].pm
  /\ pm_amount_split["r1"][1].amount < OrderAmount

\* C3: with another payment method declared and the fetched balances summing
\* to less than order_amount, the returned legs are (that payment method,
\* order_amount - total) first, then the declared gift cards in declared
\* order with their whole balances, wherever the other method was declared.
C3_PrimaryFirst ==
  \A r \in Runs :
    (AllocReturned(r) /\ Len(DeclaredPrimaries(request[r])) = 1
       /\ FetchedTotal(r) < OrderAmount)
      => pm_amount_split[r] =
           <<[pm |-> DeclaredPrimaries(request[r])[1],
              amount |-> OrderAmount - FetchedTotal(r)]>> \o FullBalanceLegs(r)

C3_Witness ==
  /\ AllocReturned("r1")
  /\ Len(request["r1"].split_payment_method_data) = 2
  /\ request["r1"].split_payment_method_data[1].payment_method_type = "Card"
  /\ FetchedTotal("r1") < OrderAmount
  /\ Len(pm_amount_split["r1"]) = 3
  /\ pm_amount_split["r1"][2].amount # pm_amount_split["r1"][3].amount

\* C4 as claimed: with no other payment method declared and the fetched
\* balances summing to less than order_amount, the allocation fails with
\* InvalidRequestData and returns no leg.
C4_AnyMapping ==
  \A r \in Runs :
    (SplitDone(r) /\ HasMerged(request[r])
       /\ Len(DeclaredPrimaries(request[r])) = 0
       /\ FetchedTotal(r) < OrderAmount)
      => /\ result[r] = Failed("InvalidRequestData")
         /\ pm_amount_split[r] = <<>>

\* Every declared gift card whose key can be derived has a balance in the
\* mapping the lookup returned to run r
AllKeysFetched(r) ==
  \A i \in DOMAIN DeclaredGiftCards(request[r]) :
    LET card == DeclaredGiftCards(request[r])[i]
    IN card.key \in GiftCardKeys => card.key \in DOMAIN balances[r]

\* C4, amended: with no other payment method declared, the fetched balances
\* summing to less than order_amount and every declared gift card's balance
\* key in the fetched mapping, the allocation fails with InvalidRequestData
\* and returns no leg.
C4_MissingPrimary ==
  \A r \in Runs :
    (SplitDone(r) /\ HasMerged(request[r])
       /\ Len(DeclaredPrimaries(request[r])) = 0
       /\ FetchedTotal(r) < OrderAmount
       /\ AllKeysFetched(r))
      => /\ result[r] = Failed("InvalidRequestData")
         /\ pc[r] = "done"
         /\ pm_amount_split[r] = <<>>

C4_Witness ==
  /\ SplitDone("r1")
  /\ Len(DeclaredPrimaries(request["r1"])) = 0
  /\ DOMAIN balances["r1"] = GiftCardKeys
  /\ FetchedTotal("r1") > 0
  /\ FetchedTotal("r1") < OrderAmount
  /\ result["r1"] = Failed("InvalidRequestData")

\* C5: when the merged descriptors hold two or more of a method type other
\* than gift card, the allocation fails with InvalidRequestData and the run
\* never calls the balance lookup.
C5_TooManyPrimaries ==
  \A r \in Runs :
    (HasMerged(request[r]) /\ Len(DeclaredPrimaries(request[r])) >= 2)
      => /\ ~Happened(r, "fetch", TRUE)
         /\ ~Happened(r, "fetch", FALSE)
         /\ pc[r] \notin {"fetch", "split"}
         /\ Happened(r, "enter", TRUE) /\ pc[r] # "allocate"
              => /\ result[r] = Failed("InvalidRequestData")
                 /\ pc[r] = "done"

C5_Witness ==
  /\ Len(DeclaredPrimaries(request["r1"])) = 2
  /\ request["r1"].payment_method_type = "Card"
  /\ \E i \in DOMAIN request["r1"].split_payment_method_data :
       request["r1"].split_payment_method_data[i].payment_method_data.variant = "GiftCard"
  /\ Happened("r1", "prepare", FALSE)
  /\ result["r1"] = Failed("InvalidRequestData")


Steps(r, ev) ==
  LET Test(e) == e.ev = ev IN SelectSeq(trace[r], Test)

\* Step p of run r is step ev of leg i with outcome ok
IsStep(r, p, ev, i, ok) == trace[r][p] = Event(ev, i, ok)

\* The calls of payments_operation_core not yet returned
InFlight(r) == Len(Steps(r, "authorize_start")) - Len(Steps(r, "authorize_return"))

\* C7: the legs handed to payments_operation_core are, in order, the first
\* legs of the allocated list, each once; a leg is started only after the
\* call of the leg before it returned successfully; at most one call is in
\* flight; and a run that returns its response has started every leg.
C7_SequentialPrefix ==
  \A r \in Runs :
    LET starts == Steps(r, "authorize_start") IN
      /\ Len(starts) <= Len(pm_amount_split[r])
      /\ \A k \in DOMAIN starts : starts[k].leg = k
      /\ InFlight(r) \in {0, 1}
      /\ InFlight(r) = 1 <=> pc[r] = "authorizing"
      /\ \A p \in DOMAIN trace[r] :
           (trace[r][p].ev = "authorize_start" /\ trace[r][p].leg > 1)
             => \E q \in 1..(p - 1) :
                  IsStep(r, q, "authorize_return", trace[r][p].leg - 1, TRUE)
      /\ result[r].kind = "Ok" => Len(starts) = Len(pm_amount_split[r])

C7_Witness ==
  /\ result["r1"].kind = "Ok"
  /\ Len(pm_amount_split["r1"]) = 3
  /\ Len(Steps("r1", "authorize_start")) = 3

\* C8: the update to Succeeded is issued only after the authorize call and
\* the status reset of every allocated leg have succeeded; and once that
\* update has succeeded the persisted status is Succeeded to the end of the
\* run.
C8_SucceededLast ==
  \A r \in Runs :
    /\ \A p \in DOMAIN trace[r] :
         trace[r][p].ev = "exit"
           => \A i \in DOMAIN pm_amount_split[r] :
                \E q \in 1..(p - 1) :
                  /\ IsStep(r, q, "authorize_return", i, TRUE)
                  /\ \E q2 \in (q + 1)..(p - 1) : IsStep(r, q2, "reset", i, TRUE)
    /\ Happened(r, "exit", TRUE) => db_intent.status = "Succeeded"
    /\ result[r].kind = "Ok" => Happened(r, "exit", TRUE)

C8_Witness ==
  /\ result["r1"].kind = "Ok"
  /\ Len(pm_amount_split["r1"]) = 2
  /\ db_intent.status = "Succeeded"

\* C9: when payments_operation_core fails for a leg, that is the last step of
\* the run: the run is over with that error, and no leg, no status reset, no
\* update to Succeeded and no other call follows.
C9_AuthorizeFailureAborts ==
  \A r \in Runs :
    \A p \in DOMAIN trace[r] :
      (trace[r][p].ev = "authorize_return" /\ ~trace[r][p].ok)
        => /\ p = Len(trace[r])
           /\ pc[r] = "done"
           /\ result[r] = Failed("AuthorizeFailed")
           /\ Len(Steps(r, "authorize_start")) = trace[r][p].leg
           /\ Len(Steps(r, "reset")) = trace[r][p].leg - 1
           /\ Steps(r, "exit") = <<>>

C9_Witness ==
  /\ pc["r1"] = "done"
  /\ Happened("r1", "reset", TRUE)
  /\ IsStep("r1", Len(trace["r1"]), "authorize_return", 2, FALSE)

\* C10: when the allocation fails, that is the last step of the run: the run
\* is over with the allocation's error, no leg was handed to
\* payments_operation_core, the SplitUpdate is the only update issued, and
\* the persisted intent is the one that update returned, with the run's
\* attempt group id.
C10_AllocationFailureAborts ==
  \A r \in Runs :
    AllocFailed(r)
      => /\ pc[r] = "done"
         /\ ~trace[r][Len(trace[r])].ok
         /\ trace[r][Len(trace[r])].ev \in {"prepare", "fetch", "split"}
         /\ result[r].kind = "Err"
         /\ result[r].err \in {"MissingRequiredField", "InvalidRequestData",
                               "InternalServerError", "BalanceFetchFailed"}
         /\ trace[r][Len(trace[r])].ev = "fetch" <=> result[r].err = "BalanceFetchFailed"
         /\ Steps(r, "trackers") = <<>>
         /\ Steps(r, "authorize_start") = <<>>
         /\ Steps(r, "reset") = <<>>
         /\ Steps(r, "exit") = <<>>
         /\ db_intent = payment_intent[r]
         /\ db_intent.active_attempts_group_id = GenerateGroupId(r)
         /\ db_intent = ApplyUpdate(PreCallIntent(OrderAmount), SplitUpdate(r))

C10_Witness ==
  /\ Happened("r1", "split", FALSE)
  /\ result["r1"] = Failed("InternalServerError")
  /\ db_intent.active_attempts_group_id = "r1"
  /\ db_intent.status = "RequiresPaymentMethod"


\* C11: when the SplitUpdate fails, that is the last step of the run: the run
\* is over with InternalServerError, the update was tried once, the persisted
\* intent is the one from before the call, and neither the balance lookup nor
\* payments_operation_core was called.
C11_EntryFailureAborts ==
  \A r \in Runs :
    Happened(r, "enter", FALSE)
      => /\ pc[r] = "done"
         /\ result[r] = Failed("InternalServerError")
         /\ Len(Steps(r, "enter")) = 1
         /\ trace[r][Len(trace[r])] = Event("enter", 0, FALSE)
         /\ Steps(r, "fetch") = <<>>
         /\ Steps(r, "authorize_start") = <<>>
         /\ db_intent = PreCallIntent(OrderAmount)

C11_Witness ==
  /\ Happened("r1", "enter", FALSE)
  /\ pc["r1"] = "done"
  /\ payment_intent["r1"] = db_intent
  /\ Len(request["r1"].split_payment_method_data) = 2

\* C12: a run whose allocation returned no leg ends with an error value.
C12_EmptyAllocationFails ==
  \A r \in Runs :
    (AllocReturned(r) /\ pm_amount_split[r] = <<>> /\ pc[r] = "done")
      => result[r].kind = "Err"

\* A run that returned a response authorized every allocated leg, left the
\* persisted status at Succeeded and answers with the last leg
ResponseMeansSettled(r) ==
  result[r].kind = "Ok"
    => /\ \A i \in DOMAIN pm_amount_split[r] :
            \E p \in DOMAIN trace[r] : IsStep(r, p, "authorize_return", i, TRUE)
       /\ db_intent.status = "Succeeded"
       /\ pm_amount_split[r] # <<>>
       /\ result[r].response = pm_amount_split[r][Len(pm_amount_split[r])]

\* C13: a run that returns a response has authorized every allocated leg,
\* left the persisted status at Succeeded and answers with the result of the
\* last leg; every other run that is over returned one error.
C13_ResponseOrError ==
  \A r \in Runs :
    /\ ResponseMeansSettled(r)
    /\ (pc[r] = "done" /\ result[r].kind # "Ok") => result[r].kind = "Err"

\* C14: a leg is handed to payments_operation_core only after the status
\* reset of the leg before it succeeded, which itself follows that leg's
\* successful authorize call and leaves the persisted status at
\* RequiresPaymentMethod; a failed status reset is the last step of the run,
\* which is over with InternalServerError.
C14_ResetBetweenLegs ==
  \A r \in Runs :
    /\ \A p \in DOMAIN trace[r] :
         (trace[r][p].ev = "authorize_start" /\ trace[r][p].leg > 1)
           => \E q \in 1..(p - 1) :
                /\ IsStep(r, q, "reset", trace[r][p].leg - 1, TRUE)
                /\ q > 1
                /\ IsStep(r, q - 1, "authorize_return", trace[r][p].leg - 1, TRUE)
    /\ (pc[r] \in {"loop", "trackers_ready", "authorizing"} /\ leg[r] > 1)
         => db_intent.status = "RequiresPaymentMethod"
    /\ \A p \in DOMAIN trace[r] :
         (trace[r][p].ev = "reset" /\ ~trace[r][p].ok)
           => /\ p = Len(trace[r])
              /\ pc[r] = "done"
              /\ result[r] = Failed("InternalServerError")
              /\ Len(Steps(r, "authorize_start")) = trace[r][p].leg

C14_Witness ==
  /\ pc["r1"] = "authorizing"
  /\ leg["r1"] = 2
  /\ Happened("r1", "reset", TRUE)
  /\ db_intent.status = "RequiresPaymentMethod"


\* The descriptor built from the request's top-level fields
TopLevel(req) ==
  [payment_method_data |-> req.payment_method_data,
   payment_method_type |-> req.payment_method_type]

\* C15: the merge leaves the request's declared list as it was: merging the
\* request again, as it stands after the call, gives the list the call built,
\* which is the declared list with the top-level descriptor once, at its end.
C15_MergeIdempotent ==
  \A r \in Runs :
    ((Happened(r, "prepare", TRUE) \/ Happened(r, "prepare", FALSE))
       /\ HasMerged(request[r]))
      => /\ combined_pm_data(request[r]) = prep[r].combined
         /\ prep[r].combined =
              request[r].split_payment_method_data \o <<TopLevel(request[r])>>
         /\ Len(prep[r].combined) = Len(request[r].split_payment_method_data) + 1

C15_Witness ==
  /\ Happened("r1", "prepare", TRUE)
  /\ Len(request["r1"].split_payment_method_data) = 2
  /\ Len(prep["r1"].combined) = 3
  /\ prep["r1"].combined[3] = TopLevel(request["r1"])
  /\ prep["r1"].combined[1] # prep["r1"].combined[3]

\* Declared gift card i of run r has a balance key that the fetched mapping
\* lacks
KeyAbsent(r, i) ==
  LET card == DeclaredGiftCards(request[r])[i]
  IN card.key \in GiftCardKeys /\ card.key \notin DOMAIN balances[r]

\* C16 as claimed: when the balance key of a declared gift card is absent from
\* the fetched mapping, the allocation fails with InternalServerError.
C16_AnyCards ==
  \A r \in Runs :
    (SplitDone(r) /\ \E i \in DOMAIN DeclaredGiftCards(request[r]) : KeyAbsent(r, i))
      => result[r] = Failed("InternalServerError")

\* C16, amended: when the balance key of a declared gift card is absent from
\* the fetched mapping and the key of every gift card declared before it can
\* be derived, the allocation fails with InternalServerError, whatever the
\* remaining amount and whether or not another payment method is declared.
C16_MissingKey ==
  \A r \in Runs :
    (SplitDone(r)
       /\ \E i \in DOMAIN DeclaredGiftCards(request[r]) :
            /\ KeyAbsent(r, i)
            /\ \A j \in 1..(i - 1) :
                 DeclaredGiftCards(request[r])[j].key \in GiftCardKeys)
      => /\ result[r] = Failed("InternalServerError")
         /\ pm_amount_split[r] = <<>>
         /\ pc[r] = "done"

C16_Witness ==
  /\ SplitDone("r1")
  /\ Len(DeclaredPrimaries(request["r1"])) = 0
  /\ Len(DeclaredGiftCards(request["r1"])) = 2
  /\ KeyAbsent("r1", 2)
  /\ ~KeyAbsent("r1", 1)
  /\ FetchedTotal("r1") < OrderAmount
  /\ result["r1"] = Failed("InternalServerError")


\* C17 as claimed: whenever a run has a leg with payments_operation_core, the
\* persisted active_attempts_group_id is the one that run generated.
C17_GroupIdBindsLegs ==
  \A r \in Runs :
    pc[r] = "authorizing" => db_intent.active_attempts_group_id = GenerateGroupId(r)

\* Another run's SplitUpdate was persisted after the one of run r
EnteredAfter(r) ==
  \E o \in Runs \ {r} :
    /\ Happened(o, "enter", TRUE)
    /\ payment_intent[o].version > payment_intent[r].version

\* C17, amended: whenever a run has a leg with payments_operation_core and no
\* other run's SplitUpdate was persisted after its own, the persisted
\* active_attempts_group_id is the one that run generated.
C17_GroupIdOfLastEntry ==
  \A r \in Runs :
    (pc[r] \in {"trackers_ready", "authorizing", "reset"} /\ ~EnteredAfter(r))
      => db_intent.active_attempts_group_id = GenerateGroupId(r)

C17_Witness ==
  /\ pc["r1"] = "authorizing"
  /\ pc["r2"] = "authorizing"
  /\ leg["r1"] = 2
  /\ EnteredAfter("r2")
  /\ db_intent.active_attempts_group_id = "r1"

\* The sum of the amounts of a list of legs
RECURSIVE LegsTotal(_)
LegsTotal(legs) ==
  IF legs = <<>> THEN 0 ELSE Head(legs).amount + LegsTotal(Tail(legs))

\* C18: when the allocation returns and the fetched balances sum to less than
\* order_amount, the amounts of the returned legs sum to order_amount, also
\* when two declared gift cards have the same balance key.
C18_LegsSumToOrderAmount ==
  \A r \in Runs :
    (AllocReturned(r) /\ FetchedTotal(r) < OrderAmount)
      => LegsTotal(pm_amount_split[r]) = OrderAmount

\* C19: a run whose update to Succeeded was persisted has a leg that
\* payments_operation_core authorized.
C19_SucceededNeedsLeg ==
  \A r \in Runs :
    Happened(r, "exit", TRUE)
      => \E i \in DOMAIN pm_amount_split[r] :
           \E p \in DOMAIN trace[r] : IsStep(r, p, "authorize_return", i, TRUE)

\* C20: with one run and no other writer, every update the run hands to the
\* store is applied to the version of the record that is persisted at that
\* moment.
C20_UpdatesOnLatestVersion ==
  \A i \in DOMAIN updates : updates[i].this = updates[i].stored

====
